---- MODULE Spec2Model ----
(***************************************************************************)
(* Model of swift::cas::SwiftCASOutputBackend                              *)
(* (lib/Frontend/CASOutputBackends.cpp): the output backend that stores    *)
(* every kept output of a frontend job in the CAS and, once all outputs    *)
(* routed to an input have been produced, writes one action-cache entry    *)
(* for that input.                                                         *)
(***************************************************************************)
EXTENDS Integers, Sequences, FiniteSets, TLC

\* ------------------------------------------------------------------ bounds
MaxStoreCalls == 2   \* storeImpl calls explored in one run

\* --------------------------------------------------------- file_types::ID
\* The enumerators the backend names; their relative order is the order of
\* file_types::ID, which llvm::sort uses.
TY_Object == 1
TY_Dependencies == 2
TY_ClangModuleFile == 3
TY_SerializedDiagnostics == 4
TY_CachedDiagnostics == 5

Kinds == {TY_Object, TY_Dependencies, TY_ClangModuleFile,
          TY_SerializedDiagnostics, TY_CachedDiagnostics}

\* file_types::isProducedFromDiagnostics: the outputs the diagnostic engine
\* writes itself.
isProducedFromDiagnostics(ID) == ID = TY_SerializedDiagnostics

\* The kinds a client hands to storeImpl: an output produced from diagnostics
\* is given no route and no CAS file, so its bytes are never kept.
StoredKinds == {k \in Kinds : ~isProducedFromDiagnostics(k)}

\* --------------------------------------------------------------- contents
\* The contents explored: a buffer is a sequence of bytes, and a write
\* appends one byte to it.
ByteVals == {"x"}
Buffers == {<< >>, <<"x">>}

\* ObjectStore::storeFromString: the reference is derived from the content.
storeFromString(Bytes) == <<"blob", Bytes>>

BaseKeys == {"K1", "K2"}

\* The backends explored: a base key and the frontend action.
Backends == { [BaseKey |-> "K1", Action |-> "EmitObject"],
              [BaseKey |-> "K2", Action |-> "EmitPCM"] }

\* createCompileJobCacheKeyForOutput(CAS, BaseKey, InputIndex)
deriveKey(Base, InputIndex) == <<"key", Base, InputIndex>>

\* ------------------------------------------------------------ the job plan
\* FrontendInputsAndOutputs as the backend reads it: the inputs in order,
\* each with its main output file name ("" when it has none) and its
\* supplementary outputs, and the index of the first output producing input.
CachedDiagnosticsPath == "<cached-diagnostics>"

PlanTwoInputs ==
  [ inputs |-> << [ outputFilename |-> "a.o",
                    supplementary  |-> << <<"a.dia", TY_SerializedDiagnostics>> >> ],
                  [ outputFilename |-> "b.o",
                    supplementary  |-> << >> ] >>,
    first  |-> 0 ]

Plans == {PlanTwoInputs}

Paths == {"a.o", "a.dia", "b.o", "x.o", CachedDiagnosticsPath}

\* InputsAndOutputs.getPrincipalOutputType() for the action.
getPrincipalOutputType(Act) ==
  IF Act = "EmitPCM" THEN TY_ClangModuleFile ELSE TY_Object

InputIndices(Plan) == 0 .. (Len(Plan.inputs) - 1)

\* StringMap::insert: an existing key keeps its value.
MapInsert(Map, Path, Value) ==
  IF Path \in DOMAIN Map THEN Map ELSE Map @@ (Path :> Value)

\* The lambda without its isProducedFromDiagnostics test: every supplementary
\* output is given a route.
RECURSIVE addSupplementary_NoFilter(_, _, _, _)
addSupplementary_NoFilter(Map, Supp, Index, i) ==
  IF i > Len(Supp) THEN Map
  ELSE addSupplementary_NoFilter(
         MapInsert(Map, Supp[i][1], <<Index, Supp[i][2]>>), Supp, Index, i + 1)

RECURSIVE addSupplementary(_, _, _, _)
addSupplementary(Map, Supp, Index, i) ==
  IF i > Len(Supp) THEN Map
  ELSE addSupplementary(
         IF ~isProducedFromDiagnostics(Supp[i][2])
           THEN MapInsert(Map, Supp[i][1], <<Index, Supp[i][2]>>)
           ELSE Map,
         Supp, Index, i + 1)

addInput(Map, Input, Index, mainOutputType) ==
  addSupplementary(
    IF Input.outputFilename # ""
      THEN MapInsert(Map, Input.outputFilename, <<Index, mainOutputType>>)
      ELSE Map,
    Input.supplementary, Index, 1)

RECURSIVE addAllInputs(_, _, _, _)
addAllInputs(Map, Plan, idx, mainOutputType) ==
  IF idx >= Len(Plan.inputs) THEN Map
  ELSE addAllInputs(addInput(Map, Plan.inputs[idx + 1], idx, mainOutputType),
                    Plan, idx + 1, mainOutputType)

EmptyMap == [p \in {} |-> <<0, 0>>]

\* initBackend without the insert of the cached diagnostics entry.
initOutputToInputMap_NoCachedDiagnostics(Plan, Act) ==
  addAllInputs(EmptyMap, Plan, 0, getPrincipalOutputType(Act))

\* initBackend: the output to input map.
initOutputToInputMap(Plan, Act) ==
  MapInsert(addAllInputs(EmptyMap, Plan, 0, getPrincipalOutputType(Act)),
            CachedDiagnosticsPath, <<Plan.first, TY_CachedDiagnostics>>)

EmptyRefs == [k \in {} |-> << >>]

\* initBackend: OutputRefs.resize(number of inputs), every map empty.
initOutputRefs(Plan) == [i \in InputIndices(Plan) |-> EmptyRefs]

\* ------------------------------------------------- DenseMap<ID, ObjectRef>
\* An insert that replaces the value of an existing key (insert_or_assign).
DenseMapInsert_Overwrite(Map, Kind, Ref) ==
  [k \in DOMAIN Map \cup {Kind} |-> IF k = Kind THEN Ref ELSE Map[k]]

\* An insert that leaves the new entry alone in the map.
DenseMapInsert_Reset(Map, Kind, Ref) == (Kind :> Ref)

\* An insert that leaves the map as it was.
DenseMapInsert_Drop(Map, Kind, Ref) == Map

\* A map is the function from the kinds it holds to their references.
\* DenseMap::insert: an existing key keeps its value.
DenseMapInsert(Map, Kind, Ref) ==
  IF Kind \in DOMAIN Map THEN Map ELSE Map @@ (Kind :> Ref)

\* A count that finds no kind.
count_AlwaysZero(Map, Kind) == 0

\* DenseMap::count
count(Map, Kind) == IF Kind \in DOMAIN Map THEN 1 ELSE 0

\* The orders in which an iteration may visit the entries of a map: the
\* bucket order of a DenseMap is no function of the keys' order.
Iterations(Map) ==
  {s \in [1 .. Cardinality(DOMAIN Map) -> DOMAIN Map] :
      \A i, j \in DOMAIN s : i # j => s[i] # s[j]}

\* ------------------------------------------------------ finalizeCacheKeysFor
\* llvm::any_of in place of llvm::all_of.
AllOutputsEmitted_AnyOf(Map, ProducedOutputs, InputIndex) ==
  \E p \in DOMAIN Map :
     Map[p][1] = InputIndex /\ count(ProducedOutputs, Map[p][2]) > 0

\* A check by route: as many outputs as the input has routes.
AllOutputsEmitted_PerRoute(Map, ProducedOutputs, InputIndex) ==
  Cardinality(DOMAIN ProducedOutputs) >=
    Cardinality({p \in DOMAIN Map : Map[p][1] = InputIndex})

\* llvm::all_of over OutputToInputMap: every output routed to the input is
\* among the produced outputs.
AllOutputsEmitted(Map, ProducedOutputs, InputIndex) ==
  \A p \in DOMAIN Map :
     Map[p][1] # InputIndex \/ count(ProducedOutputs, Map[p][2]) > 0

\* A for_each that stops after the first output it visits.
CollectOutputs_FirstOnly(ProducedOutputs, order) ==
  [i \in 1 .. 1 |-> <<order[i], ProducedOutputs[order[i]]>>]

\* A for_each that pairs every kind with the reference of the first output
\* it visits.
CollectOutputs_SameRef(ProducedOutputs, order) ==
  [i \in 1 .. Len(order) |-> <<order[i], ProducedOutputs[order[1]]>>]

\* llvm::for_each(ProducedOutputs, emplace_back), visiting in `order`.
CollectOutputs(ProducedOutputs, order) ==
  [i \in 1 .. Len(order) |-> <<order[i], ProducedOutputs[order[i]]>>]

\* llvm::sort by LHS.first < RHS.first, as an insertion sort.
RECURSIVE InsertSorted(_, _)
InsertSorted(Sorted, E) ==
  IF Sorted = << >> THEN <<E>>
  ELSE IF E[1] < Head(Sorted)[1] THEN <<E>> \o Sorted
  ELSE <<Head(Sorted)>> \o InsertSorted(Tail(Sorted), E)

RECURSIVE SortFrom(_, _, _)
SortFrom(Sorted, Outs, i) ==
  IF i > Len(Outs) THEN Sorted
  ELSE SortFrom(InsertSorted(Sorted, Outs[i]), Outs, i + 1)

\* The outputs left in the order the iteration found them.
SortOutputs_Unsorted(OutputsForInput) == OutputsForInput

SortOutputs(OutputsForInput) == SortFrom(<< >>, OutputsForInput, 1)

\* A schema with the one slot: every output is added as the main output.
ClangOutputKind_AllMain(Kind, ub) == "MainOutput"

\* The slot of the clang compatible schema an output kind goes to. A kind
\* with no slot reaches llvm_unreachable("Unexpected output when compiling
\* clang module"); `ub` is what the build then does with it: "abort" where
\* the call aborts the process, and the slot of the branch it falls into
\* where the compiler has assumed the call away.
ClangOutputKind(Kind, ub) ==
  IF Kind = TY_ClangModuleFile THEN "MainOutput"
  ELSE IF Kind = TY_CachedDiagnostics THEN "SerializedDiagnostics"
  ELSE IF Kind = TY_Dependencies THEN "Dependencies"
  ELSE ub

\* Some output has no slot in the clang compatible schema.
HasUnexpectedOutput(Act, OutputsForInput) ==
  /\ Act = "EmitPCM"
  /\ \E i \in 1 .. Len(OutputsForInput) :
        OutputsForInput[i][1] \notin
          {TY_ClangModuleFile, TY_CachedDiagnostics, TY_Dependencies}

\* The cache result object the Builder is given: the schema and the outputs
\* in the order they were added.
BuildResult(Act, OutputsForInput, ub) ==
  IF Act = "EmitPCM"
    THEN <<"clang", [i \in 1 .. Len(OutputsForInput) |->
                      <<ClangOutputKind(OutputsForInput[i][1], ub),
                        OutputsForInput[i][2]>>]>>
    ELSE <<"swift", OutputsForInput>>

\* Builder.build(CAS): the reference of the stored result object.
ResultRef(Result) == <<"obj", Result>>

\* The key of the first input, whatever the input.
CacheKeyFor_FirstInput(Base, InputIndex) == deriveKey(Base, 0)

\* createCompileJobCacheKeyForOutput(CAS, BaseKey, InputIndex) at the call.
CacheKeyFor(Base, InputIndex) == deriveKey(Base, InputIndex)

\* assert(!ProducedOutputs.empty() && "Expect outputs for this input"): a
\* run that fails it aborts the process before anything else is done.
ExpectOutputs(ProducedOutputs) == DOMAIN ProducedOutputs # {}

\* A finalize that calls Cache.put as soon as the outputs are complete, before
\* the record is built and the key derived.
finalizeCacheKeysFor_PutFirst(Map, Act, Base, ProducedOutputs, InputIndex, order, fault, ub) ==
  IF ~ExpectOutputs(ProducedOutputs)
    THEN [err |-> "abort", stage |-> "assert", unexpected |-> FALSE,
          stored |-> {}, nstores |-> 0, puts |-> << >>]
  ELSE IF ~AllOutputsEmitted(Map, ProducedOutputs, InputIndex)
    THEN [err |-> "success", stage |-> "incomplete", unexpected |-> FALSE,
          stored |-> {}, nstores |-> 0, puts |-> << >>]
  ELSE LET OutputsForInput == SortOutputs(CollectOutputs(ProducedOutputs, order))
           Unexpected == HasUnexpectedOutput(Act, OutputsForInput)
           Result == ResultRef(BuildResult(Act, OutputsForInput, ub))
           CacheKey == CacheKeyFor(Base, InputIndex)
           Put == << [idx |-> InputIndex, key |-> CacheKey, value |-> Result,
                      outputs |-> OutputsForInput, produced |-> ProducedOutputs,
                      ok |-> fault # "put"] >>
       IN  IF Unexpected /\ ub = "abort"
             THEN [err |-> "abort", stage |-> "encode", unexpected |-> TRUE,
                   stored |-> {}, nstores |-> 0, puts |-> << >>]
           ELSE IF fault = "build"
             THEN [err |-> "StoreError", stage |-> "build",
                   unexpected |-> Unexpected,
                   stored |-> {}, nstores |-> 1, puts |-> Put]
           ELSE IF fault = "key"
             THEN [err |-> "KeyError", stage |-> "key",
                   unexpected |-> Unexpected,
                   stored |-> {Result}, nstores |-> 1, puts |-> Put]
           ELSE [err |-> IF fault = "put" THEN "CacheWriteError" ELSE "success",
                 stage |-> "put", unexpected |-> Unexpected,
                 stored |-> {Result}, nstores |-> 1, puts |-> Put]

\* A finalize that returns success when Cache.put fails.
finalizeCacheKeysFor_SwallowPutError(Map, Act, Base, ProducedOutputs, InputIndex, order, fault, ub) ==
  IF ~ExpectOutputs(ProducedOutputs)
    THEN [err |-> "abort", stage |-> "assert", unexpected |-> FALSE,
          stored |-> {}, nstores |-> 0, puts |-> << >>]
  ELSE IF ~AllOutputsEmitted(Map, ProducedOutputs, InputIndex)
    THEN [err |-> "success", stage |-> "incomplete", unexpected |-> FALSE,
          stored |-> {}, nstores |-> 0, puts |-> << >>]
  ELSE LET OutputsForInput == SortOutputs(CollectOutputs(ProducedOutputs, order))
           Unexpected == HasUnexpectedOutput(Act, OutputsForInput)
           Result == ResultRef(BuildResult(Act, OutputsForInput, ub))
           CacheKey == CacheKeyFor(Base, InputIndex)
       IN  IF Unexpected /\ ub = "abort"
             THEN [err |-> "abort", stage |-> "encode", unexpected |-> TRUE,
                   stored |-> {}, nstores |-> 0, puts |-> << >>]
           ELSE IF fault = "build"
             THEN [err |-> "StoreError", stage |-> "build",
                   unexpected |-> Unexpected,
                   stored |-> {}, nstores |-> 1, puts |-> << >>]
           ELSE IF fault = "key"
             THEN [err |-> "KeyError", stage |-> "key",
                   unexpected |-> Unexpected,
                   stored |-> {Result}, nstores |-> 1, puts |-> << >>]
           ELSE [err |-> "success",
                 stage |-> "put", unexpected |-> Unexpected,
                 stored |-> {Result}, nstores |-> 1,
                 puts |-> << [idx |-> InputIndex, key |-> CacheKey,
                              value |-> Result, outputs |-> OutputsForInput,
                              produced |-> ProducedOutputs,
                              ok |-> fault # "put"] >>]

\* What one run of finalizeCacheKeysFor does on the produced outputs of the
\* input: the error it returns, the objects it stores, and the Cache.put it
\* issues. `fault` names the call that fails in this run ("none", "build",
\* "key" or "put"); `order` is the order the iteration visits the outputs in.
finalizeCacheKeysFor(Map, Act, Base, ProducedOutputs, InputIndex, order, fault, ub) ==
  IF ~ExpectOutputs(ProducedOutputs)
    THEN [err |-> "abort", stage |-> "assert", unexpected |-> FALSE,
          stored |-> {}, nstores |-> 0, puts |-> << >>]
  ELSE IF ~AllOutputsEmitted(Map, ProducedOutputs, InputIndex)
    THEN [err |-> "success", stage |-> "incomplete", unexpected |-> FALSE,
          stored |-> {}, nstores |-> 0, puts |-> << >>]
  ELSE LET OutputsForInput == SortOutputs(CollectOutputs(ProducedOutputs, order))
           Unexpected == HasUnexpectedOutput(Act, OutputsForInput)
           Result == ResultRef(BuildResult(Act, OutputsForInput, ub))
           CacheKey == CacheKeyFor(Base, InputIndex)
       IN  IF Unexpected /\ ub = "abort"
             THEN [err |-> "abort", stage |-> "encode", unexpected |-> TRUE,
                   stored |-> {}, nstores |-> 0, puts |-> << >>]
           ELSE IF fault = "build"
             THEN [err |-> "StoreError", stage |-> "build",
                   unexpected |-> Unexpected,
                   stored |-> {}, nstores |-> 1, puts |-> << >>]
           ELSE IF fault = "key"
             THEN [err |-> "KeyError", stage |-> "key",
                   unexpected |-> Unexpected,
                   stored |-> {Result}, nstores |-> 1, puts |-> << >>]
           ELSE [err |-> IF fault = "put" THEN "CacheWriteError" ELSE "success",
                 stage |-> "put", unexpected |-> Unexpected,
                 stored |-> {Result}, nstores |-> 1,
                 puts |-> << [idx |-> InputIndex, key |-> CacheKey,
                              value |-> Result, outputs |-> OutputsForInput,
                              produced |-> ProducedOutputs,
                              ok |-> fault # "put"] >>]

\* ------------------------------------------------------------------- state
VARIABLES
  BaseKey,          \* Implementation::BaseKey
  Action,           \* Implementation::Action
  InputsAndOutputs, \* Implementation::InputsAndOutputs
  OutputToInputMap, \* Implementation::OutputToInputMap
  OutputRefs,       \* Implementation::OutputRefs
  file,             \* the staged output file not yet kept or discarded
  casObjects,       \* the references the ObjectStore holds
  storeCalls,       \* ObjectStore store calls made by the backend so far
  cache,            \* the ActionCache: key -> value
  puts,             \* every Cache.put call issued so far, in order
  nStoreImpl,       \* storeImpl calls made so far
  nErrors,          \* storeImpl calls that returned an error so far
  result,           \* what the last storeImpl call returned
  aborted,          \* the process died in an assertion
  threads,          \* the storeImpl call each thread is in, and where
  clone             \* the backend cloneImpl has returned, and its OutputRefs

vars == <<BaseKey, Action, InputsAndOutputs, OutputToInputMap, OutputRefs, file,
          casObjects, storeCalls, cache, puts, nStoreImpl, nErrors, result,
          aborted, threads, clone>>

config == <<BaseKey, Action, InputsAndOutputs, OutputToInputMap>>

NoFile == [kind |-> "none"]

\* No clone of the backend has been made.
NoClone == [made |-> FALSE, OutputRefs |-> << >>]

Threads == {"t1", "t2"}
Idle == [pc |-> "idle"]

EmptyCache == [k \in {} |-> << >>]

\* The constructor: Implementation(CAS, Cache, BaseKey, InputsAndOutputs,
\* Action) followed by initBackend.
Init ==
  /\ \E b \in Backends : BaseKey = b.BaseKey /\ Action = b.Action
  /\ InputsAndOutputs \in Plans
  /\ OutputToInputMap = initOutputToInputMap(InputsAndOutputs, Action)
  /\ OutputRefs = initOutputRefs(InputsAndOutputs)
  /\ file = NoFile
  /\ casObjects = {}
  /\ storeCalls = 0
  /\ cache = EmptyCache
  /\ puts = << >>
  /\ nStoreImpl = 0
  /\ nErrors = 0
  /\ result = "none"
  /\ aborted = FALSE
  /\ threads = [t \in Threads |-> Idle]
  /\ clone = NoClone

Faults == {"none", "store", "build", "key", "put"}

\* What a build does at llvm_unreachable and at a failed assert: abort, or
\* go on as if the nearest branch had been taken.
Unchecked == {"abort", "Dependencies"}

\* A storeImpl that inserts the reference before the store call has returned,
\* so that a failed store leaves the kind in the outputs of the input.
storeImpl_InsertBeforeStore(Bytes, InputIndex, OutputKind, fault, ub) ==
  LET BytesRef == storeFromString(Bytes)
      Inserted == DenseMapInsert(OutputRefs[InputIndex], OutputKind, BytesRef)
  IN  /\ ~aborted
      /\ nStoreImpl < MaxStoreCalls
      /\ nStoreImpl' = nStoreImpl + 1
      /\ OutputRefs' = [OutputRefs EXCEPT ![InputIndex] = Inserted]
      /\ IF fault = "store"
           THEN /\ ub = "checked"
                /\ storeCalls' = storeCalls + 1
                /\ result' = "StoreError"
                /\ nErrors' = nErrors + 1
                /\ UNCHANGED <<casObjects, cache, puts, aborted>>
           ELSE \E order \in Iterations(Inserted) :
                     LET Fin == finalizeCacheKeysFor(OutputToInputMap, Action,
                                                     BaseKey, Inserted, InputIndex,
                                                     order, fault, ub)
                     IN  /\ (fault # "none") =>
                              (Fin.stage \notin {"incomplete", "encode"})
                         /\ (ub = "checked") <=> ~Fin.unexpected
                         /\ casObjects' = casObjects \cup {BytesRef} \cup Fin.stored
                         /\ storeCalls' = storeCalls + 1 + Fin.nstores
                         /\ puts' = puts \o Fin.puts
                         /\ cache' = IF Fin.puts # << >> /\ Fin.puts[1].ok
                                       THEN (Fin.puts[1].key :> Fin.puts[1].value)
                                              @@ cache
                                       ELSE cache
                         /\ aborted' = (Fin.err = "abort")
                         /\ result' = Fin.err
                         /\ nErrors' = IF Fin.err = "success" THEN nErrors
                                       ELSE nErrors + 1
      /\ UNCHANGED <<config, clone, threads>>

\* A storeImpl that empties the outputs of the input when finalize returns an
\* error.
storeImpl_DropOnFinalizeError(Bytes, InputIndex, OutputKind, fault, ub) ==
  LET BytesRef == storeFromString(Bytes)
      Inserted == DenseMapInsert(OutputRefs[InputIndex], OutputKind, BytesRef)
  IN  /\ ~aborted
      /\ nStoreImpl < MaxStoreCalls
      /\ nStoreImpl' = nStoreImpl + 1
      /\ IF fault = "store"
           THEN /\ ub = "checked"
                /\ storeCalls' = storeCalls + 1
                /\ result' = "StoreError"
                /\ nErrors' = nErrors + 1
                /\ UNCHANGED <<OutputRefs, casObjects, cache, puts, aborted>>
           ELSE \E order \in Iterations(Inserted) :
                     LET Fin == finalizeCacheKeysFor(OutputToInputMap, Action,
                                                     BaseKey, Inserted, InputIndex,
                                                     order, fault, ub)
                     IN  /\ (fault # "none") =>
                              (Fin.stage \notin {"incomplete", "encode"})
                         /\ (ub = "checked") <=> ~Fin.unexpected
                         /\ OutputRefs' = [OutputRefs EXCEPT ![InputIndex] =
                                             IF Fin.err = "success" THEN Inserted
                                             ELSE EmptyRefs]
                         /\ casObjects' = casObjects \cup {BytesRef} \cup Fin.stored
                         /\ storeCalls' = storeCalls + 1 + Fin.nstores
                         /\ puts' = puts \o Fin.puts
                         /\ cache' = IF Fin.puts # << >> /\ Fin.puts[1].ok
                                       THEN (Fin.puts[1].key :> Fin.puts[1].value)
                                              @@ cache
                                       ELSE cache
                         /\ aborted' = (Fin.err = "abort")
                         /\ result' = Fin.err
                         /\ nErrors' = IF Fin.err = "success" THEN nErrors
                                       ELSE nErrors + 1
      /\ UNCHANGED <<config, clone, threads>>

\* A storeImpl that remembers the inputs it has called Cache.put for, and
\* does not finalize such an input again.
storeImpl_FinalizeOnce(Bytes, InputIndex, OutputKind, fault, ub) ==
  LET BytesRef == storeFromString(Bytes)
      Inserted == DenseMapInsert(OutputRefs[InputIndex], OutputKind, BytesRef)
  IN  /\ ~aborted
      /\ nStoreImpl < MaxStoreCalls
      /\ nStoreImpl' = nStoreImpl + 1
      /\ IF fault = "store"
           THEN /\ ub = "checked"
                /\ storeCalls' = storeCalls + 1
                /\ result' = "StoreError"
                /\ nErrors' = nErrors + 1
                /\ UNCHANGED <<OutputRefs, casObjects, cache, puts, aborted>>
           ELSE /\ OutputRefs' = [OutputRefs EXCEPT ![InputIndex] = Inserted]
                /\ \E order \in Iterations(Inserted) :
                     LET Fin == IF \E n \in DOMAIN puts : puts[n].idx = InputIndex
                                  THEN [err |-> "success", stage |-> "put",
                                        unexpected |-> FALSE, stored |-> {},
                                        nstores |-> 0, puts |-> << >>]
                                  ELSE finalizeCacheKeysFor(OutputToInputMap, Action,
                                                            BaseKey, Inserted,
                                                            InputIndex, order, fault, ub)
                     IN  /\ (fault # "none") =>
                              (Fin.stage \notin {"incomplete", "encode"})
                         /\ (ub = "checked") <=> ~Fin.unexpected
                         /\ casObjects' = casObjects \cup {BytesRef} \cup Fin.stored
                         /\ storeCalls' = storeCalls + 1 + Fin.nstores
                         /\ puts' = puts \o Fin.puts
                         /\ cache' = IF Fin.puts # << >> /\ Fin.puts[1].ok
                                       THEN (Fin.puts[1].key :> Fin.puts[1].value)
                                              @@ cache
                                       ELSE cache
                         /\ aborted' = (Fin.err = "abort")
                         /\ result' = Fin.err
                         /\ nErrors' = IF Fin.err = "success" THEN nErrors
                                       ELSE nErrors + 1
      /\ UNCHANGED <<config, clone, threads>>

\* Implementation::storeImpl(Path, Bytes, InputIndex, OutputKind), the whole
\* call: store the bytes, insert the reference, finalize. With ub = "checked"
\* the call is one that keeps clear of llvm_unreachable; any other ub is a
\* call that reaches it, and what the build does there.
storeImpl(Bytes, InputIndex, OutputKind, fault, ub) ==
  LET BytesRef == storeFromString(Bytes)
      Inserted == DenseMapInsert(OutputRefs[InputIndex], OutputKind, BytesRef)
  IN  /\ ~aborted
      /\ nStoreImpl < MaxStoreCalls
      /\ nStoreImpl' = nStoreImpl + 1
      /\ IF fault = "store"
           THEN /\ ub = "checked"
                /\ storeCalls' = storeCalls + 1
                /\ result' = "StoreError"
                /\ nErrors' = nErrors + 1
                /\ UNCHANGED <<OutputRefs, casObjects, cache, puts, aborted>>
           ELSE /\ OutputRefs' = [OutputRefs EXCEPT ![InputIndex] = Inserted]
                /\ \E order \in Iterations(Inserted) :
                     LET Fin == finalizeCacheKeysFor(OutputToInputMap, Action,
                                                     BaseKey, Inserted, InputIndex,
                                                     order, fault, ub)
                     IN  /\ (fault # "none") =>
                              (Fin.stage \notin {"incomplete", "encode"})
                         /\ (ub = "checked") <=> ~Fin.unexpected
                         /\ casObjects' = casObjects \cup {BytesRef} \cup Fin.stored
                         /\ storeCalls' = storeCalls + 1 + Fin.nstores
                         /\ puts' = puts \o Fin.puts
                         /\ cache' = IF Fin.puts # << >> /\ Fin.puts[1].ok
                                       THEN (Fin.puts[1].key :> Fin.puts[1].value)
                                              @@ cache
                                       ELSE cache
                         /\ aborted' = (Fin.err = "abort")
                         /\ result' = Fin.err
                         /\ nErrors' = IF Fin.err = "success" THEN nErrors
                                       ELSE nErrors + 1
      /\ UNCHANGED <<config, clone, threads>>

\* SwiftCASOutputBackend::createFileImpl once the path is resolved to its
\* producing input and output type.
createFile(ResolvedPath, InputIndex, OutputType) ==
  /\ file' = IF isProducedFromDiagnostics(OutputType)
               THEN [kind |-> "null", Path |-> ResolvedPath, Bytes |-> << >>]
               ELSE [kind |-> "cas", Path |-> ResolvedPath, Bytes |-> << >>,
                     InputIndex |-> InputIndex, OutputType |-> OutputType]
  /\ UNCHANGED <<config, clone, threads, OutputRefs, casObjects, storeCalls, cache, puts,
                 nStoreImpl, nErrors, result, aborted>>

\* A createFileImpl that looks the path up with operator[], which inserts a
\* default route for a path the map does not hold.
createFileImpl_OperatorIndex(ResolvedPath) ==
  LET Map == MapInsert(OutputToInputMap, ResolvedPath, <<0, TY_Object>>)
  IN  /\ ~aborted
      /\ file = NoFile
      /\ OutputToInputMap' = Map
      /\ file' = IF isProducedFromDiagnostics(Map[ResolvedPath][2])
                   THEN [kind |-> "null", Path |-> ResolvedPath, Bytes |-> << >>]
                   ELSE [kind |-> "cas", Path |-> ResolvedPath, Bytes |-> << >>,
                         InputIndex |-> Map[ResolvedPath][1],
                         OutputType |-> Map[ResolvedPath][2]]
      /\ UNCHANGED <<BaseKey, Action, InputsAndOutputs, clone, threads, OutputRefs,
                     casObjects, storeCalls, cache, puts, nStoreImpl, nErrors,
                     result, aborted>>

\* SwiftCASOutputBackend::createFileImpl for a path of the output map.
createFileImpl(ResolvedPath) ==
  /\ ~aborted
  /\ file = NoFile
  /\ ResolvedPath \in DOMAIN OutputToInputMap
  /\ createFile(ResolvedPath, OutputToInputMap[ResolvedPath][1],
                OutputToInputMap[ResolvedPath][2])

\* A write to the stream of the staged file (getOS): the bytes are buffered;
\* NullOutputFileImpl drops them.
write(b) ==
  /\ ~aborted
  /\ file # NoFile
  /\ Append(file.Bytes, b) \in Buffers
  /\ file' = IF file.kind = "null" THEN file
             ELSE [file EXCEPT !.Bytes = Append(@, b)]
  /\ file' # file
  /\ UNCHANGED <<config, clone, threads, OutputRefs, casObjects, storeCalls, cache, puts,
                 nStoreImpl, nErrors, result, aborted>>

\* SwiftCASOutputFile::keep: OnKeep(Path, Bytes), which is storeImpl with the
\* input and kind captured at creation. NullOutputFileImpl::keep does nothing.
keep(fault) ==
  /\ file # NoFile
  /\ file' = NoFile
  /\ IF file.kind = "null"
       THEN /\ ~aborted
            /\ fault = "none"
            /\ UNCHANGED <<config, clone, threads, OutputRefs, casObjects, storeCalls, cache,
                           puts, nStoreImpl, nErrors, result, aborted>>
       ELSE storeImpl(file.Bytes, file.InputIndex, file.OutputType, fault,
                      "checked")

\* A discard that hands the buffered bytes to storeImpl as keep does.
discard_Keeps == keep("none")

\* SwiftCASOutputFile::discard
discard ==
  /\ ~aborted
  /\ file # NoFile
  /\ file' = NoFile
  /\ UNCHANGED <<config, clone, threads, OutputRefs, casObjects, storeCalls, cache, puts,
                 nStoreImpl, nErrors, result, aborted>>

\* SwiftCASOutputBackend::storeImpl called by the client itself.
storeImplDirect(Bytes, InputIndex, OutputKind, fault) ==
  /\ storeImpl(Bytes, InputIndex, OutputKind, fault, "checked")
  /\ UNCHANGED file

\* A storeCachedDiagnostics that returns success and stores nothing.
storeCachedDiagnostics_NotStored(InputIndex, Bytes, fault) ==
  /\ ~aborted
  /\ fault = "none"
  /\ nStoreImpl < MaxStoreCalls
  /\ nStoreImpl' = nStoreImpl + 1
  /\ result' = "success"
  /\ UNCHANGED <<config, clone, threads, OutputRefs, file, casObjects, storeCalls,
                 cache, puts, nErrors, aborted>>

\* SwiftCASOutputBackend::storeCachedDiagnostics(InputIndex, Bytes)
storeCachedDiagnostics(InputIndex, Bytes, fault) ==
  /\ storeImpl(Bytes, InputIndex, TY_CachedDiagnostics, fault, "checked")
  /\ UNCHANGED file

Next ==
  \/ \E p \in Paths : createFileImpl(p)
  \/ \E b \in ByteVals : write(b)
  \/ \E f \in Faults : keep(f)
  \/ discard
  \/ \E B \in Buffers, i \in InputIndices(InputsAndOutputs), k \in StoredKinds,
        f \in Faults : storeImplDirect(B, i, k, f)
  \/ \E i \in InputIndices(InputsAndOutputs), B \in Buffers, f \in Faults :
        storeCachedDiagnostics(i, B, f)

Spec == Init /\ [][Next]_vars

\* ---------------------------------------------- calls the asserts rule out
\* createFileImpl for a path that is not in the output map: the assert
\* "Unknown output file" aborts, and a build without asserts reads the end
\* iterator and goes on with whatever input index and output type it finds.
createFileImplUnknown(ResolvedPath, ub, InputIndex, OutputType) ==
  /\ ~aborted
  /\ file = NoFile
  /\ ResolvedPath \notin DOMAIN OutputToInputMap
  /\ IF ub = "abort"
       THEN /\ aborted' = TRUE
            /\ UNCHANGED <<config, clone, threads, OutputRefs, file, casObjects, storeCalls,
                           cache, puts, nStoreImpl, nErrors, result>>
       ELSE createFile(ResolvedPath, InputIndex, OutputType)

\* A storeImpl call that finalizes, under EmitPCM, an input one of whose
\* outputs has no slot in the clang compatible schema.
storeImplUnexpected(Bytes, InputIndex, OutputKind, fault, ub) ==
  /\ storeImpl(Bytes, InputIndex, OutputKind, fault, ub)
  /\ UNCHANGED file

NextUnchecked ==
  \/ Next
  \/ \E p \in Paths, i \in InputIndices(InputsAndOutputs), k \in Kinds :
        \/ createFileImplUnknown(p, "abort", 0, TY_Object)
        \/ createFileImplUnknown(p, "garbage", i, k)
  \/ \E B \in Buffers, i \in InputIndices(InputsAndOutputs), k \in StoredKinds,
        f \in Faults, ub \in Unchecked : storeImplUnexpected(B, i, k, f, ub)

SpecUnchecked == Init /\ [][NextUnchecked]_vars

\* ------------------------------------------------------- concurrent keeps
\* Threads that keep() output files at the same time. Each call runs the
\* statements of storeImpl in order; nothing in the backend orders the
\* statements of one call against those of another. The ObjectStore and the
\* ActionCache are thread safe, so their calls are single steps.

\* keep() of a file created for `ResolvedPath` with `Bytes` written to it:
\* the thread enters storeImpl.
tKeep(t, ResolvedPath, Bytes) ==
  /\ threads[t].pc \in {"idle", "done"}
  /\ nStoreImpl < MaxStoreCalls
  /\ ResolvedPath \in DOMAIN OutputToInputMap
  /\ ~isProducedFromDiagnostics(OutputToInputMap[ResolvedPath][2])
  /\ nStoreImpl' = nStoreImpl + 1
  /\ threads' = [threads EXCEPT ![t] =
                   [pc |-> "store", Bytes |-> Bytes,
                    InputIndex |-> OutputToInputMap[ResolvedPath][1],
                    OutputKind |-> OutputToInputMap[ResolvedPath][2]]]
  /\ UNCHANGED <<config, clone, OutputRefs, file, casObjects, storeCalls, cache, puts,
                 nErrors, result, aborted>>

\* CAS.storeFromString(None, Bytes).moveInto(BytesRef)
tStore(t, fault) ==
  LET T == threads[t]
  IN  /\ T.pc = "store"
      /\ storeCalls' = storeCalls + 1
      /\ IF fault = "store"
           THEN /\ threads' = [threads EXCEPT ![t] =
                                 [pc |-> "done", err |-> "StoreError",
                                  InputIndex |-> T.InputIndex,
                                  OutputKind |-> T.OutputKind]]
                /\ nErrors' = nErrors + 1
                /\ UNCHANGED casObjects
           ELSE /\ threads' = [threads EXCEPT ![t] =
                                 [pc |-> "insert",
                                  BytesRef |-> storeFromString(T.Bytes),
                                  InputIndex |-> T.InputIndex,
                                  OutputKind |-> T.OutputKind]]
                /\ casObjects' = casObjects \cup {storeFromString(T.Bytes)}
                /\ UNCHANGED nErrors
      /\ UNCHANGED <<config, clone, OutputRefs, file, cache, puts, nStoreImpl, result,
                     aborted>>

\* OutputRefs[InputIndex].insert, first half: the map is read.
tInsertRead(t) ==
  LET T == threads[t]
  IN  /\ T.pc = "insert"
      /\ threads' = [threads EXCEPT ![t] =
                       [pc |-> "inserting", BytesRef |-> T.BytesRef,
                        InputIndex |-> T.InputIndex, OutputKind |-> T.OutputKind,
                        Seen |-> OutputRefs[T.InputIndex]]]
      /\ UNCHANGED <<config, clone, OutputRefs, file, casObjects, storeCalls, cache,
                     puts, nStoreImpl, nErrors, result, aborted>>

\* An insert into one map shared by all inputs instead of the map of the
\* input.
tInsertWrite_SharedMap(t) ==
  LET T == threads[t]
  IN  /\ T.pc = "inserting"
      /\ OutputRefs' = [j \in DOMAIN OutputRefs |->
                          DenseMapInsert(T.Seen, T.OutputKind, T.BytesRef)]
      /\ threads' = [threads EXCEPT ![t] =
                       [pc |-> "finalize", InputIndex |-> T.InputIndex,
                        OutputKind |-> T.OutputKind]]
      /\ UNCHANGED <<config, clone, file, casObjects, storeCalls, cache, puts,
                     nStoreImpl, nErrors, result, aborted>>

\* OutputRefs[InputIndex].insert, second half: the map with the new entry is
\* written back.
tInsertWrite(t) ==
  LET T == threads[t]
  IN  /\ T.pc = "inserting"
      /\ OutputRefs' = [OutputRefs EXCEPT ![T.InputIndex] =
                          DenseMapInsert(T.Seen, T.OutputKind, T.BytesRef)]
      /\ threads' = [threads EXCEPT ![t] =
                       [pc |-> "finalize", InputIndex |-> T.InputIndex,
                        OutputKind |-> T.OutputKind]]
      /\ UNCHANGED <<config, clone, file, casObjects, storeCalls, cache, puts,
                     nStoreImpl, nErrors, result, aborted>>

\* finalizeCacheKeysFor(InputIndex): ProducedOutputs is a copy of the map
\* taken now; the rest of the call works on the copy.
tFinalize(t, fault) ==
  LET T == threads[t]
  IN  /\ T.pc = "finalize"
      /\ fault # "store"
      /\ \E order \in Iterations(OutputRefs[T.InputIndex]) :
           LET Fin == finalizeCacheKeysFor(OutputToInputMap, Action, BaseKey,
                                           OutputRefs[T.InputIndex],
                                           T.InputIndex, order, fault, "abort")
           IN  /\ (fault # "none") => (Fin.stage \notin {"incomplete", "encode"})
               /\ ~Fin.unexpected
               /\ casObjects' = casObjects \cup Fin.stored
               /\ storeCalls' = storeCalls + Fin.nstores
               /\ puts' = puts \o Fin.puts
               /\ cache' = IF Fin.puts # << >> /\ Fin.puts[1].ok
                             THEN (Fin.puts[1].key :> Fin.puts[1].value) @@ cache
                             ELSE cache
               /\ nErrors' = IF Fin.err = "success" THEN nErrors ELSE nErrors + 1
               /\ threads' = [threads EXCEPT ![t] =
                                [pc |-> "done", err |-> Fin.err,
                                 InputIndex |-> T.InputIndex,
                                 OutputKind |-> T.OutputKind]]
      /\ UNCHANGED <<config, clone, OutputRefs, file, nStoreImpl, result, aborted>>

NextThreads ==
  \E t \in Threads :
     \/ \E p \in Paths, B \in Buffers : tKeep(t, p, B)
     \/ \E f \in {"none", "store"} : tStore(t, f)
     \/ tInsertRead(t)
     \/ tInsertWrite(t)
     \/ \E f \in Faults : tFinalize(t, f)

SpecThreads == Init /\ [][NextThreads]_vars

\* ------------------------------------------- a plan with a path declared twice
\* Two inputs whose main output has the same file name.
PlanDuplicatePath ==
  [ inputs |-> << [ outputFilename |-> "a.o", supplementary |-> << >> ],
                  [ outputFilename |-> "a.o", supplementary |-> << >> ] >>,
    first  |-> 0 ]

\* The outputs a plan declares: the path, the input, and which output of the
\* input it is (0 for the main output, n for the n-th supplementary one).
Declared(Plan) ==
  {<<Plan.inputs[i + 1].outputFilename, i, 0>> :
      i \in {j \in InputIndices(Plan) : Plan.inputs[j + 1].outputFilename # ""}}
  \cup UNION {{<<Plan.inputs[i + 1].supplementary[n][1], i, n>> :
                 n \in DOMAIN Plan.inputs[i + 1].supplementary} :
              i \in InputIndices(Plan)}

\* The paths a plan declares more than once.
DuplicatePaths(Plan) ==
  {p \in Paths : Cardinality({d \in Declared(Plan) : d[1] = p}) >= 2}

\* The constructor on the plan with the duplicate path.
InitDuplicate ==
  /\ \E b \in Backends : BaseKey = b.BaseKey /\ Action = b.Action
  /\ InputsAndOutputs = PlanDuplicatePath
  /\ OutputToInputMap = initOutputToInputMap(InputsAndOutputs, Action)
  /\ OutputRefs = initOutputRefs(InputsAndOutputs)
  /\ file = NoFile
  /\ casObjects = {}
  /\ storeCalls = 0
  /\ cache = EmptyCache
  /\ puts = << >>
  /\ nStoreImpl = 0
  /\ nErrors = 0
  /\ result = "none"
  /\ aborted = FALSE
  /\ threads = [t \in Threads |-> Idle]
  /\ clone = NoClone

SpecDuplicate == InitDuplicate /\ [][Next]_vars

\* The paths a plan declares for supplementary outputs of a kind produced
\* from diagnostics.
DiagnosticsPaths(Plan) ==
  UNION {{Plan.inputs[i + 1].supplementary[n][1] :
            n \in {m \in DOMAIN Plan.inputs[i + 1].supplementary :
                     isProducedFromDiagnostics(Plan.inputs[i + 1].supplementary[m][2])}} :
         i \in InputIndices(Plan)}

\* ------------------------------------- concurrent keeps for distinct inputs
\* Three inputs with one main output each; the cached diagnostics go to the
\* first.
PlanThreeInputs ==
  [ inputs |-> << [ outputFilename |-> "a.o", supplementary |-> << >> ],
                  [ outputFilename |-> "b.o", supplementary |-> << >> ],
                  [ outputFilename |-> "c.o", supplementary |-> << >> ] >>,
    first  |-> 0 ]

\* The constructor on the plan of three inputs.
InitJobs ==
  /\ \E b \in Backends : BaseKey = b.BaseKey /\ Action = b.Action
  /\ InputsAndOutputs = PlanThreeInputs
  /\ OutputToInputMap = initOutputToInputMap(InputsAndOutputs, Action)
  /\ OutputRefs = initOutputRefs(InputsAndOutputs)
  /\ file = NoFile
  /\ casObjects = {}
  /\ storeCalls = 0
  /\ cache = EmptyCache
  /\ puts = << >>
  /\ nStoreImpl = 0
  /\ nErrors = 0
  /\ result = "none"
  /\ aborted = FALSE
  /\ threads = [t \in Threads |-> Idle]
  /\ clone = NoClone

\* The inputs whose outputs a thread keeps: no input has two threads.
JobsOf(t) == IF t = "t1" THEN {0, 1} ELSE {2}

\* keep() by a thread of an output of one of its inputs.
tKeepJob(t, ResolvedPath, Bytes) ==
  /\ ResolvedPath \in DOMAIN OutputToInputMap
  /\ OutputToInputMap[ResolvedPath][1] \in JobsOf(t)
  /\ tKeep(t, ResolvedPath, Bytes)

NextJobs ==
  \E t \in Threads :
     \/ \E p \in DOMAIN OutputToInputMap, B \in Buffers : tKeepJob(t, p, B)
     \/ \E f \in {"none", "store"} : tStore(t, f)
     \/ tInsertRead(t)
     \/ tInsertWrite(t)
     \/ \E f \in Faults : tFinalize(t, f)

SpecJobs == InitJobs /\ [][NextJobs]_vars

\* ------------------------------------------------------------------ clones
\* SwiftCASOutputBackend::cloneImpl(): a backend constructed from the CAS,
\* Cache, BaseKey, InputsAndOutputs and Action of this one; its constructor
\* runs initBackend, which resizes its own OutputRefs. One clone is followed.
cloneImpl ==
  /\ ~aborted
  /\ ~clone.made
  /\ clone' = [made |-> TRUE, OutputRefs |-> initOutputRefs(InputsAndOutputs)]
  /\ UNCHANGED <<config, threads, OutputRefs, file, casObjects, storeCalls,
                 cache, puts, nStoreImpl, nErrors, result, aborted>>

\* The clone's OutputToInputMap, filled by its own initBackend from the
\* InputsAndOutputs and Action it was given.
cloneOutputToInputMap == initOutputToInputMap(InputsAndOutputs, Action)

\* A clone handed the Implementation of the original instead of one of its
\* own: its storeImpl inserts into the OutputRefs of the original.
cloneStoreImpl_SharedRefs(Bytes, InputIndex, OutputKind, fault) ==
  /\ clone.made
  /\ storeImpl(Bytes, InputIndex, OutputKind, fault, "checked")
  /\ UNCHANGED file

\* Implementation::storeImpl(Path, Bytes, InputIndex, OutputKind) of the
\* clone, the whole call: the CAS, the Cache and the BaseKey are those of the
\* original, the OutputRefs and the OutputToInputMap are the clone's.
cloneStoreImpl(Bytes, InputIndex, OutputKind, fault) ==
  LET BytesRef == storeFromString(Bytes)
      Inserted == DenseMapInsert(clone.OutputRefs[InputIndex], OutputKind, BytesRef)
  IN  /\ ~aborted
      /\ clone.made
      /\ nStoreImpl < MaxStoreCalls
      /\ nStoreImpl' = nStoreImpl + 1
      /\ IF fault = "store"
           THEN /\ storeCalls' = storeCalls + 1
                /\ result' = "StoreError"
                /\ nErrors' = nErrors + 1
                /\ UNCHANGED <<clone, casObjects, cache, puts, aborted>>
           ELSE /\ clone' = [clone EXCEPT !.OutputRefs[InputIndex] = Inserted]
                /\ \E order \in Iterations(Inserted) :
                     LET Fin == finalizeCacheKeysFor(cloneOutputToInputMap, Action,
                                                     BaseKey, Inserted, InputIndex,
                                                     order, fault, "checked")
                     IN  /\ (fault # "none") =>
                              (Fin.stage \notin {"incomplete", "encode"})
                         /\ ~Fin.unexpected
                         /\ casObjects' = casObjects \cup {BytesRef} \cup Fin.stored
                         /\ storeCalls' = storeCalls + 1 + Fin.nstores
                         /\ puts' = puts \o Fin.puts
                         /\ cache' = IF Fin.puts # << >> /\ Fin.puts[1].ok
                                       THEN (Fin.puts[1].key :> Fin.puts[1].value)
                                              @@ cache
                                       ELSE cache
                         /\ aborted' = (Fin.err = "abort")
                         /\ result' = Fin.err
                         /\ nErrors' = IF Fin.err = "success" THEN nErrors
                                       ELSE nErrors + 1
      /\ UNCHANGED <<config, threads, OutputRefs, file>>

\* The original and its clone, each handed outputs through storeImpl.
NextClone ==
  \/ cloneImpl
  \/ \E B \in Buffers, i \in InputIndices(InputsAndOutputs), k \in StoredKinds,
        f \in Faults : storeImplDirect(B, i, k, f)
  \/ \E B \in Buffers, i \in InputIndices(InputsAndOutputs), k \in StoredKinds,
        f \in Faults : cloneStoreImpl(B, i, k, f)

SpecClone == Init /\ [][NextClone]_vars

\* ------------------------------------------------- two routes of one kind
\* A plan whose second input has a supplementary output of the principal
\* output type of the action: two paths routed to the input with one kind.
PlanSameKind(Act) ==
  [ inputs |-> << [ outputFilename |-> "a.o", supplementary |-> << >> ],
                  [ outputFilename |-> "b.o",
                    supplementary  |->
                      << <<"b.out", getPrincipalOutputType(Act)>> >> ] >>,
    first  |-> 0 ]

InitSameKind ==
  /\ \E b \in Backends : BaseKey = b.BaseKey /\ Action = b.Action
  /\ InputsAndOutputs = PlanSameKind(Action)
  /\ OutputToInputMap = initOutputToInputMap(InputsAndOutputs, Action)
  /\ OutputRefs = initOutputRefs(InputsAndOutputs)
  /\ file = NoFile
  /\ casObjects = {}
  /\ storeCalls = 0
  /\ cache = EmptyCache
  /\ puts = << >>
  /\ nStoreImpl = 0
  /\ nErrors = 0
  /\ result = "none"
  /\ aborted = FALSE
  /\ threads = [t \in Threads |-> Idle]
  /\ clone = NoClone

\* Output files created at the paths of the plan, written, kept or discarded.
NextSameKind ==
  \/ \E p \in DOMAIN OutputToInputMap : createFileImpl(p)
  \/ \E b \in ByteVals : write(b)
  \/ \E f \in Faults : keep(f)
  \/ discard

SpecSameKind == InitSameKind /\ [][NextSameKind]_vars

\* The plan with an input left without a route, with the calls that reach
\* llvm_unreachable among the steps.
SpecDuplicateUnchecked == InitDuplicate /\ [][NextUnchecked]_vars

\* ================================================================= claims
\* The kinds the output map routes to an input.
RoutedKinds(j) ==
  {OutputToInputMap[p][2] :
     p \in {q \in DOMAIN OutputToInputMap : OutputToInputMap[q][1] = j}}

\* The Cache.put calls issued for an input.
PutsFor(j) == {n \in DOMAIN puts : puts[n].idx = j}

Inputs == InputIndices(InputsAndOutputs)

\* The entries of a map in ascending order of kind.
Ascending(Map) ==
  LET s == CHOOSE s \in Iterations(Map) :
                \A i, j \in DOMAIN s : i < j => s[i] < s[j]
  IN  [i \in DOMAIN s |-> <<s[i], Map[s[i]]>>]

\* C1: Cache.put for an input is only ever invoked when every kind the output
\* map routes to that input is in the input's produced outputs, and those
\* produced outputs are entries the input still holds.
C1_PutOnlyWhenRoutedKindsPresent ==
  \A n \in DOMAIN puts :
     /\ RoutedKinds(puts[n].idx) \subseteq DOMAIN puts[n].produced
     /\ \A k \in DOMAIN puts[n].produced :
           /\ k \in DOMAIN OutputRefs[puts[n].idx]
           /\ OutputRefs[puts[n].idx][k] = puts[n].produced[k]

\* C1 witness: a Cache.put was issued for an input with two routed kinds.
C1_Witness ==
  \E n \in DOMAIN puts : Cardinality(RoutedKinds(puts[n].idx)) >= 2

\* C2: as long as every storeImpl call succeeded, Cache.put has been invoked
\* at most once for each input.
C2_PutAtMostOncePerJob ==
  nErrors = 0 => \A j \in Inputs : Cardinality(PutsFor(j)) <= 1

\* C4: when an input holds exactly one output per routed kind, the outputs put
\* in the record are the produced outputs in ascending order of kind, and the
\* value put is the reference of the record built from them: neither depends
\* on the order the outputs were stored or visited in.
C4_RecordIndependentOfOrder ==
  \A n \in DOMAIN puts :
     DOMAIN puts[n].produced = RoutedKinds(puts[n].idx) =>
       /\ puts[n].outputs = Ascending(puts[n].produced)
       /\ puts[n].value =
            ResultRef(BuildResult(Action, Ascending(puts[n].produced), "abort"))

\* C4 witness: a record was put for an input holding exactly its two routed
\* kinds.
C4_Witness ==
  \E n \in DOMAIN puts :
     /\ DOMAIN puts[n].produced = RoutedKinds(puts[n].idx)
     /\ Cardinality(DOMAIN puts[n].produced) >= 2

\* C5 (as claimed): a successful storeImpl for a kind the input already holds
\* with another reference leaves the kind mapped to the reference of the
\* later write.
C5_LaterWriteOverwrites ==
  [][\A B \in Buffers, i \in Inputs, k \in StoredKinds :
       (/\ storeImplDirect(B, i, k, "none")
        /\ k \in DOMAIN OutputRefs[i]
        /\ OutputRefs[i][k] # storeFromString(B))
       => OutputRefs'[i][k] = storeFromString(B)]_vars

\* C5 (amended): no step changes the reference of a kind an input already
\* holds: a later write for the kind leaves the reference of the first write.
C5_FirstWriteIsKept ==
  [][\A i \in Inputs : \A k \in DOMAIN OutputRefs[i] :
       /\ k \in DOMAIN OutputRefs'[i]
       /\ OutputRefs'[i][k] = OutputRefs[i][k]]_vars

\* C5 witness: two storeImpl calls succeeded with different bytes and the
\* inputs hold a single entry: the second write was for the kind of the first.
C5_Witness ==
  /\ nStoreImpl = 2
  /\ nErrors = 0
  /\ {storeFromString(B) : B \in Buffers} \subseteq casObjects
  /\ \E i \in Inputs :
       /\ Cardinality(DOMAIN OutputRefs[i]) = 1
       /\ \A j \in Inputs \ {i} : DOMAIN OutputRefs[j] = {}

\* C6 (as claimed): once every routed kind other than the cached diagnostics
\* is among an input's outputs, the input has been finalized.
C6_DiagnosticsNeverGateCompleteness ==
  nErrors = 0 =>
    \A j \in Inputs :
       (/\ DOMAIN OutputRefs[j] # {}
        /\ (RoutedKinds(j) \ {TY_CachedDiagnostics}) \subseteq DOMAIN OutputRefs[j])
       => PutsFor(j) # {}

\* C6 (amended): no kind produced from diagnostics has a route; the cached
\* diagnostics are routed to the first output producing input, which is
\* finalized only with its cached diagnostics stored; and an input that holds
\* all its routed kinds, the cached diagnostics among them, has been finalized.
C6_CachedDiagnosticsGateFirstInput ==
  /\ \A p \in DOMAIN OutputToInputMap :
        ~isProducedFromDiagnostics(OutputToInputMap[p][2])
  /\ TY_CachedDiagnostics \in RoutedKinds(InputsAndOutputs.first)
  /\ \A n \in PutsFor(InputsAndOutputs.first) :
        TY_CachedDiagnostics \in DOMAIN puts[n].produced
  /\ nErrors = 0 =>
       \A j \in Inputs :
          (DOMAIN OutputRefs[j] # {} /\ RoutedKinds(j) \subseteq DOMAIN OutputRefs[j])
          => PutsFor(j) # {}

\* C6 witness: the first output producing input holds its main output, no
\* cached diagnostics, and has not been finalized.
C6_Witness ==
  LET j == InputsAndOutputs.first
  IN  /\ nErrors = 0
      /\ DOMAIN OutputRefs[j] = RoutedKinds(j) \ {TY_CachedDiagnostics}
      /\ DOMAIN OutputRefs[j] # {}
      /\ PutsFor(j) = {}

C8_UnknownPathFailsWithError ==
  [][\A p \in Paths, i \in Inputs, k \in Kinds, ub \in {"abort", "garbage"} :
       createFileImplUnknown(p, ub, i, k) =>
         /\ ~aborted'
         /\ file' = NoFile
         /\ UNCHANGED <<OutputRefs, casObjects, storeCalls, cache, puts>>]_vars

\* C9: under EmitPCM, a storeImpl call that finalizes an input one of whose
\* outputs has no slot in the clang schema returns an error to its caller and
\* issues no Cache.put.
C9_UnexpectedKindIsEncodeError ==
  [][\A B \in Buffers, i \in Inputs, k \in StoredKinds, f \in Faults,
        ub \in Unchecked :
       storeImplUnexpected(B, i, k, f, ub) =>
         /\ ~aborted'
         /\ result' = "EncodeError"
         /\ puts' = puts]_vars

\* C10: every Cache.put for an input uses the key derived from the BaseKey of
\* the backend and the index of that input, which is the key of no other
\* input, and the cache holds entries under such keys only.
C10_PutKeyIsDerivedFromBaseKeyAndIndex ==
  /\ \A n \in DOMAIN puts :
        /\ puts[n].key = deriveKey(BaseKey, puts[n].idx)
        /\ \A j \in Inputs \ {puts[n].idx} : puts[n].key # deriveKey(BaseKey, j)
  /\ \A key \in DOMAIN cache : \E j \in Inputs : key = deriveKey(BaseKey, j)
  /\ \A j \in Inputs :
        deriveKey(BaseKey, j) \in DOMAIN cache =>
          \E n \in PutsFor(j) : puts[n].ok /\ puts[n].value = cache[deriveKey(BaseKey, j)]

\* C10 witness: two puts for an input other than the first one, issued on
\* different produced outputs.
C10_Witness ==
  \E n, m \in DOMAIN puts :
     /\ puts[n].idx = puts[m].idx
     /\ puts[n].idx # 0
     /\ puts[n].produced # puts[m].produced

\* C3: when two threads have each kept, without error, an output of a
\* different kind of the same input, those being the two kinds routed to the
\* input and the only calls made, the input was finalized exactly once.
C3_ConcurrentKeepsFinalizeOnce ==
  \A j \in Inputs :
     (/\ nStoreImpl = 2
      /\ nErrors = 0
      /\ \A t \in Threads : threads[t].pc = "done" /\ threads[t].InputIndex = j
      /\ {threads[t].OutputKind : t \in Threads} = RoutedKinds(j)
      /\ Cardinality(RoutedKinds(j)) = 2)
     => Cardinality(PutsFor(j)) = 1

\* C11: a keep() whose store of the bytes fails returns StoreError; and any
\* storeImpl call that returns StoreError after a single store call (the store
\* of its bytes) leaves the outputs of every input as they were, adds nothing
\* to the store or the cache, and issues no Cache.put.
C11_StoreErrorLeavesPendingUnchanged ==
  [][/\ keep("store") =>
          /\ result' = "StoreError"
          /\ nErrors' = nErrors + 1
          /\ storeCalls' = storeCalls + 1
     /\ (/\ nStoreImpl' = nStoreImpl + 1
         /\ result' = "StoreError"
         /\ storeCalls' = storeCalls + 1)
        => UNCHANGED <<OutputRefs, casObjects, cache, puts>>]_vars

\* C11 witness: the last call failed in the store of its bytes while an input
\* held an output of an earlier call.
C11_Witness ==
  /\ result = "StoreError"
  /\ storeCalls = nStoreImpl
  /\ \E j \in Inputs : DOMAIN OutputRefs[j] # {}

\* C12: a call issues at most one Cache.put, and only with the record built
\* from the sorted outputs stored in the ObjectStore and with the key derived
\* for the input; a call that returns the error of the build of the record or
\* of the derivation of the key issues no Cache.put and leaves the cache as
\* it was.
C12_PutOnlyAfterRecordAndKey ==
  [][/\ puts' # puts =>
          /\ Len(puts') = Len(puts) + 1
          /\ SubSeq(puts', 1, Len(puts)) = puts
          /\ LET P == puts'[Len(puts')]
             IN  /\ P.value = ResultRef(BuildResult(Action, P.outputs, "abort"))
                 /\ P.value \in casObjects'
                 /\ P.key = deriveKey(BaseKey, P.idx)
                 /\ storeCalls' = storeCalls + 2
     /\ (nStoreImpl' = nStoreImpl + 1 /\ result' \in {"StoreError", "KeyError"})
        => (puts' = puts /\ cache' = cache)
     /\ \A f \in {"build", "key"} :
          keep(f) => result' = IF f = "build" THEN "StoreError" ELSE "KeyError"]_vars

\* C12 witness: the last call failed deriving the key for an input that holds
\* all its routed kinds, and no Cache.put was issued for the input.
C12_Witness ==
  /\ result = "KeyError"
  /\ \E j \in Inputs :
        /\ RoutedKinds(j) \subseteq DOMAIN OutputRefs[j]
        /\ Cardinality(DOMAIN OutputRefs[j]) >= 2
        /\ PutsFor(j) = {}

\* An input holds every kind routed to it.
Complete(Refs, j) == DOMAIN Refs[j] # {} /\ RoutedKinds(j) \subseteq DOMAIN Refs[j]

\* C13: a call that fails in finalize (it returns an error after its bytes
\* were stored) leaves every output the inputs held in place and the input it
\* wrote to complete; and a later successful keep() for an input that is
\* complete but has no cache entry runs finalize again: it issues one
\* Cache.put for the input, which leaves the cache entry of the input.
C13_FinalizeFailureKeepsPending ==
  [][/\ (/\ nStoreImpl' = nStoreImpl + 1
         /\ nErrors' = nErrors + 1
         /\ storeCalls' >= storeCalls + 2)
        => /\ \A j \in Inputs : \A k \in DOMAIN OutputRefs[j] :
                 k \in DOMAIN OutputRefs'[j] /\ OutputRefs'[j][k] = OutputRefs[j][k]
           /\ \E j \in Inputs : Complete(OutputRefs', j)
           /\ casObjects \subseteq casObjects'
           /\ cache' = cache
     /\ (/\ file # NoFile
         /\ file.kind = "cas"
         /\ Complete(OutputRefs, file.InputIndex)
         /\ deriveKey(BaseKey, file.InputIndex) \notin DOMAIN cache
         /\ keep("none"))
        => /\ result' = "success"
           /\ Len(puts') = Len(puts) + 1
           /\ puts'[Len(puts')].idx = file.InputIndex
           /\ puts'[Len(puts')].ok
           /\ puts'[Len(puts')].produced = OutputRefs'[file.InputIndex]
           /\ deriveKey(BaseKey, file.InputIndex) \in DOMAIN cache'
           /\ cache'[deriveKey(BaseKey, file.InputIndex)] = puts'[Len(puts')].value]_vars

\* C13 witness: a Cache.put for an input failed, and a later call for the
\* input succeeded and left the cache entry of the input.
C13_Witness ==
  \E n, m \in DOMAIN puts :
     /\ n < m
     /\ puts[n].idx = puts[m].idx
     /\ ~puts[n].ok
     /\ puts[m].ok
     /\ deriveKey(BaseKey, puts[m].idx) \in DOMAIN cache
     /\ result = "success"

\* C14: a backend constructed from a plan that declares a path twice is not
\* usable: no output file is ever created by it and no storeImpl call runs.
C14_DuplicatePathFailsConstruction ==
  DuplicatePaths(InputsAndOutputs) # {} => (file = NoFile /\ nStoreImpl = 0)

\* C15: discard() of a staged output file, whatever was written to it, makes
\* no store call and no Cache.put, returns no error, and leaves the store,
\* the cache and the outputs of every input unchanged: the file is gone and
\* every input is as complete as it was.
C15_DiscardLeavesNoTrace ==
  [][discard =>
       /\ file' = NoFile
       /\ UNCHANGED <<OutputRefs, casObjects, storeCalls, cache, puts,
                      nStoreImpl, nErrors, result, aborted>>
       /\ \A j \in Inputs : Complete(OutputRefs', j) <=> Complete(OutputRefs, j)]_vars

\* C15 witness: a staged file with bytes written to it, for the one kind its
\* input still lacks, at the point where it is discarded or kept.
C15_Witness ==
  /\ file # NoFile
  /\ file.kind = "cas"
  /\ file.Bytes # << >>
  /\ ~Complete(OutputRefs, file.InputIndex)
  /\ RoutedKinds(file.InputIndex) \ DOMAIN OutputRefs[file.InputIndex]
       = {file.OutputType}
  /\ DOMAIN OutputRefs[file.InputIndex] # {}

\* C16: createFileImpl for a path the plan declares for an output produced
\* from diagnostics succeeds and returns a null file: the process lives, the
\* staged file is a null file, and nothing else changes.
C16_DiagnosticsPathGetsNullFile ==
  [][\A p \in DiagnosticsPaths(InputsAndOutputs), i \in Inputs, k \in Kinds,
        ub \in {"abort", "garbage"} :
       (createFileImpl(p) \/ createFileImplUnknown(p, ub, i, k)) =>
         /\ ~aborted'
         /\ file' # NoFile
         /\ file'.kind = "null"
         /\ UNCHANGED <<OutputRefs, casObjects, storeCalls, cache, puts>>]_vars

\* The number of entries the inputs in `js` hold.
RECURSIVE HeldBy(_)
HeldBy(js) ==
  IF js = {} THEN 0
  ELSE LET j == CHOOSE x \in js : TRUE
       IN  Cardinality(DOMAIN OutputRefs[j]) + HeldBy(js \ {j})

\* C17: with each input written by one thread only, a step of a thread
\* changes neither the outputs nor the Cache.put calls of an input of the
\* other thread; and once all calls have returned without error, each having
\* added a kind, every complete input has exactly one Cache.put and its cache
\* entry under the key derived for it, and every other input has none.
C17_DistinctJobsFinalizeIndependently ==
  /\ [][\A t \in Threads :
          threads'[t] # threads[t] =>
            \A j \in Inputs \ JobsOf(t) :
               /\ OutputRefs'[j] = OutputRefs[j]
               /\ {n \in DOMAIN puts' : puts'[n].idx = j} = PutsFor(j)
               /\ \A n \in PutsFor(j) : puts'[n] = puts[n]]_vars
  /\ [](( /\ \A t \in Threads : threads[t].pc \in {"idle", "done"}
          /\ nErrors = 0
          /\ nStoreImpl = HeldBy(Inputs) )
        => \A j \in Inputs :
              /\ Cardinality(PutsFor(j)) = IF Complete(OutputRefs, j) THEN 1 ELSE 0
              /\ Complete(OutputRefs, j) <=> deriveKey(BaseKey, j) \in DOMAIN cache
              /\ \A n \in PutsFor(j) :
                    /\ puts[n].produced = OutputRefs[j]
                    /\ cache[deriveKey(BaseKey, j)] = puts[n].value)

\* C17 witness: both threads have returned from a keep, each for an input of
\* its own, and the cache holds the entries of both inputs.
C17_Witness ==
  /\ \A t \in Threads : threads[t].pc = "done"
  /\ nErrors = 0
  /\ threads["t1"].InputIndex # threads["t2"].InputIndex
  /\ \A t \in Threads :
        /\ Cardinality(PutsFor(threads[t].InputIndex)) = 1
        /\ deriveKey(BaseKey, threads[t].InputIndex) \in DOMAIN cache

\* C18: a storeImpl call that returns success having added a kind to an input
\* either completes the input, and then it has built the record and issued
\* the one Cache.put that leaves the cache entry of the input before it
\* returns, or leaves a routed kind missing, and then it has issued no
\* Cache.put; so that, as long as no call failed, an input has its cache entry
\* exactly when it holds every kind routed to it.
C18_CompletingWriteFinalizes ==
  /\ [][(nStoreImpl' = nStoreImpl + 1 /\ nErrors' = nErrors) =>
          /\ result' = "success"
          /\ \A j \in Inputs :
                OutputRefs'[j] # OutputRefs[j] =>
                  IF Complete(OutputRefs', j)
                    THEN /\ Len(puts') = Len(puts) + 1
                         /\ SubSeq(puts', 1, Len(puts)) = puts
                         /\ puts'[Len(puts')].idx = j
                         /\ puts'[Len(puts')].ok
                         /\ puts'[Len(puts')].produced = OutputRefs'[j]
                         /\ puts'[Len(puts')].value \in casObjects'
                         /\ deriveKey(BaseKey, j) \in DOMAIN cache'
                         /\ cache'[deriveKey(BaseKey, j)] = puts'[Len(puts')].value
                    ELSE /\ puts' = puts
                         /\ cache' = cache
                         /\ storeCalls' = storeCalls + 1]_vars
  /\ [](nErrors = 0 =>
          \A j \in Inputs :
             /\ Complete(OutputRefs, j) <=> deriveKey(BaseKey, j) \in DOMAIN cache
             /\ ~Complete(OutputRefs, j) => PutsFor(j) = {})

\* C18 witness: without any failure, the first output producing input holds
\* its two routed kinds, stored by two calls, and has its cache entry from
\* the one Cache.put of the second.
C18_Witness ==
  LET j == InputsAndOutputs.first
  IN  /\ nErrors = 0
      /\ nStoreImpl = 2
      /\ Cardinality(DOMAIN OutputRefs[j]) = 2
      /\ Complete(OutputRefs, j)
      /\ Cardinality(PutsFor(j)) = 1
      /\ deriveKey(BaseKey, j) \in DOMAIN cache

\* The error a storeImpl call returns when the named call fails.
ErrorOf(fault) ==
  IF fault = "none" THEN "success"
  ELSE IF fault \in {"store", "build"} THEN "StoreError"
  ELSE IF fault = "key" THEN "KeyError"
  ELSE "CacheWriteError"

\* C19: keep() of a CAS file returns the error of the call that failed and
\* success only when none did; and the stages run in the order store of the
\* bytes, build of the record, derivation of the key, Cache.put: a failed
\* stage is preceded by the effects of the earlier stages and followed by
\* none of the later ones.
C19_KeepReturnsTheErrorOfTheFailedStage ==
  [][\A f \in Faults :
       (file # NoFile /\ file.kind = "cas" /\ keep(f)) =>
         LET BytesRef == storeFromString(file.Bytes)
         IN  /\ result' = ErrorOf(f)
             /\ (result' = "success") <=> (f = "none")
             /\ nErrors' = IF f = "none" THEN nErrors ELSE nErrors + 1
             /\ f = "store" =>
                  /\ storeCalls' = storeCalls + 1
                  /\ UNCHANGED <<OutputRefs, casObjects, puts, cache>>
             /\ f = "build" =>
                  /\ storeCalls' = storeCalls + 2
                  /\ casObjects' = casObjects \cup {BytesRef}
                  /\ file.OutputType \in DOMAIN OutputRefs'[file.InputIndex]
                  /\ UNCHANGED <<puts, cache>>
             /\ f = "key" =>
                  /\ storeCalls' = storeCalls + 2
                  /\ BytesRef \in casObjects'
                  /\ \E o \in casObjects' : o[1] = "obj"
                  /\ UNCHANGED <<puts, cache>>
             /\ f = "put" =>
                  /\ storeCalls' = storeCalls + 2
                  /\ Len(puts') = Len(puts) + 1
                  /\ ~puts'[Len(puts')].ok
                  /\ puts'[Len(puts')].value \in casObjects'
                  /\ puts'[Len(puts')].key = deriveKey(BaseKey, file.InputIndex)
                  /\ cache' = cache]_vars

\* C19 witness: the last call returned the error of a failed Cache.put, which
\* is the last Cache.put issued, and the cache has no entry under its key.
C19_Witness ==
  /\ result = "CacheWriteError"
  /\ file = NoFile
  /\ puts # << >>
  /\ ~puts[Len(puts)].ok
  /\ puts[Len(puts)].key \notin DOMAIN cache

\* C20: when every call so far has failed in the store of its bytes, a keep()
\* that succeeds does what it does on a backend that has seen no call: the
\* only output held is the one it stores, under its kind, for its input; and
\* the only Cache.put is the one it issues, when that kind is all that is
\* routed to the input.
C20_RetryAfterStoreErrorAsIfFresh ==
  [][(/\ nStoreImpl >= 1
      /\ nErrors = nStoreImpl
      /\ storeCalls = nStoreImpl
      /\ result = "StoreError"
      /\ file # NoFile
      /\ file.kind = "cas"
      /\ keep("none")) =>
       LET i == file.InputIndex
           k == file.OutputType
           Ref == storeFromString(file.Bytes)
       IN  /\ result' = "success"
           /\ nErrors' = nErrors
           /\ OutputRefs' = [initOutputRefs(InputsAndOutputs) EXCEPT ![i] = (k :> Ref)]
           /\ IF RoutedKinds(i) \subseteq {k}
                THEN /\ Len(puts') = 1
                     /\ puts'[1].idx = i
                     /\ puts'[1].ok
                     /\ puts'[1].produced = (k :> Ref)
                     /\ puts'[1].outputs = << <<k, Ref>> >>
                     /\ puts'[1].key = deriveKey(BaseKey, i)
                     /\ cache' = (deriveKey(BaseKey, i) :> puts'[1].value)
                     /\ casObjects' = {Ref, puts'[1].value}
                ELSE /\ puts' = << >>
                     /\ cache' = EmptyCache
                     /\ casObjects' = {Ref}]_vars

\* C20 witness: of two calls the first failed in the store of its bytes and
\* the second succeeded, completed its input and issued the one Cache.put.
C20_Witness ==
  /\ nStoreImpl = 2
  /\ nErrors = 1
  /\ storeCalls = 3
  /\ result = "success"
  /\ Len(puts) = 1
  /\ puts[1].ok
  /\ DOMAIN cache = {puts[1].key}
  /\ file = NoFile

\* The supplementary outputs the plan declares for an input.
SupplementaryOf(j) ==
  {InputsAndOutputs.inputs[j + 1].supplementary[n] :
     n \in DOMAIN InputsAndOutputs.inputs[j + 1].supplementary}

\* C21 (as claimed): the output map holds, for every input, its main output
\* path, each of its supplementary output paths, and a diagnostics route of
\* its own.
C21_OneDiagnosticsRoutePerJob ==
  \A j \in Inputs :
     /\ InputsAndOutputs.inputs[j + 1].outputFilename # "" =>
          InputsAndOutputs.inputs[j + 1].outputFilename \in DOMAIN OutputToInputMap
     /\ \A o \in SupplementaryOf(j) : o[1] \in DOMAIN OutputToInputMap
     /\ \E p \in DOMAIN OutputToInputMap :
           OutputToInputMap[p] = <<j, TY_CachedDiagnostics>>

\* C21 (amended): the output map holds exactly the main output path of every
\* input, routed to the input with the principal output type, the
\* supplementary output paths whose kind is not produced from diagnostics,
\* routed to their input with their kind, and one "<cached-diagnostics>"
\* route for the whole backend, which belongs to the first output producing
\* input.
C21_OneDiagnosticsRoutePerBackend ==
  /\ DOMAIN OutputToInputMap =
       {InputsAndOutputs.inputs[j + 1].outputFilename :
          j \in {i \in Inputs : InputsAndOutputs.inputs[i + 1].outputFilename # ""}}
       \cup UNION {{o[1] : o \in {x \in SupplementaryOf(j) :
                                    ~isProducedFromDiagnostics(x[2])}} :
                   j \in Inputs}
       \cup {CachedDiagnosticsPath}
  /\ \A j \in Inputs :
        /\ InputsAndOutputs.inputs[j + 1].outputFilename # "" =>
             OutputToInputMap[InputsAndOutputs.inputs[j + 1].outputFilename]
               = <<j, getPrincipalOutputType(Action)>>
        /\ \A o \in SupplementaryOf(j) :
              IF isProducedFromDiagnostics(o[2])
                THEN o[1] \notin DOMAIN OutputToInputMap
                ELSE OutputToInputMap[o[1]] = <<j, o[2]>>
  /\ {p \in DOMAIN OutputToInputMap : OutputToInputMap[p][2] = TY_CachedDiagnostics}
       = {CachedDiagnosticsPath}
  /\ OutputToInputMap[CachedDiagnosticsPath]
       = <<InputsAndOutputs.first, TY_CachedDiagnostics>>

\* C21 witness: a backend constructed from a plan of two inputs, one of which
\* declares a supplementary output produced from diagnostics: the map has
\* three routes, none for that output and none with cached diagnostics for
\* the second input.
C21_Witness ==
  /\ Cardinality(Inputs) = 2
  /\ Cardinality(DOMAIN OutputToInputMap) = 3
  /\ \E j \in Inputs : \E o \in SupplementaryOf(j) :
        isProducedFromDiagnostics(o[2]) /\ o[1] \notin DOMAIN OutputToInputMap
  /\ \E j \in Inputs : TY_CachedDiagnostics \notin RoutedKinds(j)

\* C22: in every reachable state the output map is the one initBackend built
\* from the plan and the action, which are those of the construction, so the
\* kinds routed to an input are those the initial map routes to it.
C22_RouteTableIsFixed ==
  /\ InputsAndOutputs \in Plans
  /\ \E b \in Backends : BaseKey = b.BaseKey /\ Action = b.Action
  /\ OutputToInputMap = initOutputToInputMap(InputsAndOutputs, Action)
  /\ \A j \in Inputs :
        RoutedKinds(j) =
          {initOutputToInputMap(InputsAndOutputs, Action)[p][2] :
             p \in {q \in DOMAIN initOutputToInputMap(InputsAndOutputs, Action) :
                      initOutputToInputMap(InputsAndOutputs, Action)[q][1] = j}}

\* C22 witness: a file is staged after two storeImpl calls, one of which
\* failed and one of which issued a Cache.put.
C22_Witness ==
  /\ file # NoFile
  /\ file.Bytes # << >>
  /\ nStoreImpl = 2
  /\ nErrors = 1
  /\ puts # << >>

\* C23: before the first storeImpl call every input holds no output, and no
\* step, of a call that succeeds or of one that fails, takes a kind away from
\* an input: the kinds an input holds after a step include those it held
\* before, and a step adds at most one kind to one input.
C23_PendingGrowsMonotonically ==
  /\ [](nStoreImpl = 0 => \A j \in Inputs : OutputRefs[j] = EmptyRefs)
  /\ [][/\ \A j \in Inputs : DOMAIN OutputRefs[j] \subseteq DOMAIN OutputRefs'[j]
        /\ HeldBy(Inputs)' <= HeldBy(Inputs) + 1
        /\ DOMAIN OutputRefs' = DOMAIN OutputRefs]_vars

\* C23 witness: an input holds two kinds after a call that failed.
C23_Witness ==
  /\ nErrors >= 1
  /\ result # "success"
  /\ \E j \in Inputs : Cardinality(DOMAIN OutputRefs[j]) = 2

\* C24: on a backend whose action is not EmitPCM, the record of every
\* Cache.put lists every output the input held, each once, in ascending order
\* of kind, whatever the kinds are; the value put is the reference of that
\* record; and no kind makes a call abort or keeps a complete input from its
\* Cache.put.
C24_SwiftSchemaListsEveryOutput ==
  Action # "EmitPCM" =>
    /\ ~aborted
    /\ \A n \in DOMAIN puts :
          /\ Len(puts[n].outputs) = Cardinality(DOMAIN puts[n].produced)
          /\ \A k \in DOMAIN puts[n].produced :
                Cardinality({m \in DOMAIN puts[n].outputs :
                               puts[n].outputs[m] = <<k, puts[n].produced[k]>>}) = 1
          /\ \A a, b \in DOMAIN puts[n].outputs :
                a < b => puts[n].outputs[a][1] < puts[n].outputs[b][1]
          /\ puts[n].value = <<"obj", <<"swift", puts[n].outputs>>>>
    /\ nErrors = 0 =>
         \A j \in Inputs : Complete(OutputRefs, j) => PutsFor(j) # {}

\* C24 witness: on such a backend a record was put that lists two outputs,
\* one of them of a kind that no route gives to the input.
C24_Witness ==
  /\ Action # "EmitPCM"
  /\ \E n \in DOMAIN puts :
        /\ Len(puts[n].outputs) = 2
        /\ ~(DOMAIN puts[n].produced \subseteq RoutedKinds(puts[n].idx))

\* The entries of a clang compatible record that sit in a slot.
InSlot(value, slot) ==
  {m \in DOMAIN value[2][2] : value[2][2][m][1] = slot}

\* C25 (as claimed): on an EmitPCM backend every record has each output in
\* the slot of its kind, and an input that holds all its routed kinds but the
\* cached diagnostics has been finalized.
C25_FinalizedWithoutDiagnostics ==
  (Action = "EmitPCM" /\ nErrors = 0) =>
    /\ \A n \in DOMAIN puts : puts[n].value[2][1] = "clang"
    /\ \A j \in Inputs :
          (/\ DOMAIN OutputRefs[j] # {}
           /\ DOMAIN OutputRefs[j] \subseteq
                {TY_ClangModuleFile, TY_CachedDiagnostics, TY_Dependencies}
           /\ (RoutedKinds(j) \ {TY_CachedDiagnostics}) \subseteq DOMAIN OutputRefs[j])
          => \E n \in PutsFor(j) :
                InSlot(puts[n].value, "SerializedDiagnostics") = {}

\* C25 (amended): on an EmitPCM backend every record has one entry per output
\* the input held, the clang module in the main output slot, the cached
\* diagnostics in the serialized diagnostics slot and the dependencies in the
\* dependencies slot; an input other than the first output producing one that
\* holds its routed kinds has been finalized, and without cached diagnostics
\* its record has no serialized diagnostics slot; the first output producing
\* input is finalized only with its cached diagnostics.
C25_ClangSchemaSlots ==
  Action = "EmitPCM" =>
    /\ \A n \in DOMAIN puts :
          LET P == puts[n].produced
              V == puts[n].value
          IN  /\ V[2][1] = "clang"
              /\ Len(V[2][2]) = Cardinality(DOMAIN P)
              /\ InSlot(V, "MainOutput") # {} <=> TY_ClangModuleFile \in DOMAIN P
              /\ InSlot(V, "SerializedDiagnostics") # {} <=>
                   TY_CachedDiagnostics \in DOMAIN P
              /\ InSlot(V, "Dependencies") # {} <=> TY_Dependencies \in DOMAIN P
              /\ \A m \in InSlot(V, "MainOutput") :
                    V[2][2][m][2] = P[TY_ClangModuleFile]
              /\ \A m \in InSlot(V, "SerializedDiagnostics") :
                    V[2][2][m][2] = P[TY_CachedDiagnostics]
              /\ \A m \in InSlot(V, "Dependencies") :
                    V[2][2][m][2] = P[TY_Dependencies]
              /\ \A slot \in {"MainOutput", "SerializedDiagnostics", "Dependencies"} :
                    Cardinality(InSlot(V, slot)) <= 1
    /\ \A n \in PutsFor(InputsAndOutputs.first) :
          InSlot(puts[n].value, "SerializedDiagnostics") # {}
    /\ nErrors = 0 =>
         \A j \in Inputs \ {InputsAndOutputs.first} :
            (/\ DOMAIN OutputRefs[j] # {}
             /\ RoutedKinds(j) \subseteq DOMAIN OutputRefs[j])
            => PutsFor(j) # {}

\* C25 witness: an EmitPCM backend has put, for an input other than the first
\* output producing one, a record with a main output and dependencies and no
\* serialized diagnostics.
C25_Witness ==
  /\ Action = "EmitPCM"
  /\ \E n \in DOMAIN puts :
        /\ puts[n].idx # InputsAndOutputs.first
        /\ InSlot(puts[n].value, "MainOutput") # {}
        /\ InSlot(puts[n].value, "Dependencies") # {}
        /\ InSlot(puts[n].value, "SerializedDiagnostics") = {}

\* C26: in sequential use the assertion of finalizeCacheKeysFor never fails:
\* no call aborts; finalize is entered only after the store of the bytes
\* succeeded and their reference was inserted, so while no input holds an
\* output every call made so far has failed at its one store call with
\* nothing kept or put; and every Cache.put was made for outputs that were
\* not empty.
C26_ExpectOutputsHolds ==
  /\ ~aborted
  /\ result # "abort"
  /\ \A n \in DOMAIN puts : ExpectOutputs(puts[n].produced)
  /\ (\A j \in Inputs : ~ExpectOutputs(OutputRefs[j])) =>
       /\ nErrors = nStoreImpl
       /\ storeCalls = nStoreImpl
       /\ casObjects = {}
       /\ puts = << >>
  /\ (\E j \in Inputs : ExpectOutputs(OutputRefs[j])) =>
       /\ casObjects # {}
       /\ storeCalls >= 1

\* C26 witness: two calls have run finalizeCacheKeysFor, one that returned
\* with the input incomplete and one that went on to Cache.put.
C26_Witness ==
  /\ nStoreImpl = 2
  /\ nErrors = 0
  /\ Len(puts) = 1
  /\ \E j \in Inputs : ExpectOutputs(OutputRefs[j]) /\ PutsFor(j) = {}

\* Whether every output of P is an output of Refs for input j.
HeldIn(P, Refs, j) ==
  \A k \in DOMAIN P : k \in DOMAIN Refs[j] /\ Refs[j][k] = P[k]

\* C27: cloneImpl changes nothing but the clone, which starts with no outputs
\* for any input; a storeImpl on one backend leaves the outputs of the other
\* alone; objects stored through either are in the one store and every
\* Cache.put has the key of the one BaseKey; every record put holds the
\* outputs of one backend only; and an input is finalized only if one backend
\* alone holds all its routed kinds, so an input whose routed kinds are split
\* between the two is finalized by neither.
C27_CloneHasItsOwnOutputRefs ==
  /\ [](/\ ~clone.made => clone = NoClone
        /\ clone.made =>
             /\ DOMAIN clone.OutputRefs = DOMAIN OutputRefs
             /\ \A j \in Inputs : \A k \in DOMAIN clone.OutputRefs[j] :
                   clone.OutputRefs[j][k] \in casObjects
             /\ \A n \in DOMAIN puts :
                   /\ puts[n].key = CacheKeyFor(BaseKey, puts[n].idx)
                   /\ \/ HeldIn(puts[n].produced, OutputRefs, puts[n].idx)
                      \/ HeldIn(puts[n].produced, clone.OutputRefs, puts[n].idx)
             /\ \A j \in Inputs :
                   PutsFor(j) # {} =>
                     Complete(OutputRefs, j) \/ Complete(clone.OutputRefs, j))
  /\ [][/\ (~clone.made /\ clone'.made) =>
             /\ clone'.OutputRefs = initOutputRefs(InputsAndOutputs)
             /\ UNCHANGED <<config, OutputRefs, casObjects, storeCalls, cache,
                            puts, nStoreImpl, nErrors, result>>
        /\ (clone.made /\ clone' # clone) => OutputRefs' = OutputRefs
        /\ OutputRefs' # OutputRefs => clone' = clone
        /\ OutputRefs' # OutputRefs =>
             \A B \in Buffers, i \in Inputs, k \in StoredKinds, f \in Faults :
                ~cloneStoreImpl(B, i, k, f)]_vars

\* C27 witness: the routed kinds of an input are split between the original
\* and its clone, no call has failed, and the input has not been finalized.
C27_Witness ==
  /\ clone.made
  /\ nErrors = 0
  /\ \E j \in Inputs :
        /\ DOMAIN OutputRefs[j] # {}
        /\ DOMAIN clone.OutputRefs[j] # {}
        /\ DOMAIN OutputRefs[j] \cap DOMAIN clone.OutputRefs[j] = {}
        /\ DOMAIN OutputRefs[j] \cup DOMAIN clone.OutputRefs[j] = RoutedKinds(j)
        /\ PutsFor(j) = {}

\* The paths routed to input j.
RoutesTo(j) == {p \in DOMAIN OutputToInputMap : OutputToInputMap[p][1] = j}

C29_UnroutedKindIsAccepted ==
  /\ [](\A n \in DOMAIN puts : \A k \in DOMAIN puts[n].produced :
           \E m \in DOMAIN puts[n].outputs : puts[n].outputs[m][1] = k)
  /\ [][\A i \in Inputs, k \in StoredKinds :
          (/\ k \notin RoutedKinds(i)
           /\ k \notin DOMAIN OutputRefs[i]
           /\ k \in DOMAIN OutputRefs'[i])
          => /\ ~aborted'
             /\ (RoutedKinds(i) \subseteq DOMAIN OutputRefs'[i]) =
                  (RoutedKinds(i) \subseteq DOMAIN OutputRefs[i])
             /\ \A n \in DOMAIN puts' :
                   (n > Len(puts) /\ puts'[n].idx = i) =>
                     k \in DOMAIN puts'[n].produced]_vars

\* C30 (as claimed): an input with no route holds no output and has no
\* Cache.put until a storeImpl call is made for it directly, no keep being
\* such a call; the first such call whose stores succeed, whatever the kind,
\* does not abort and issues a Cache.put for the input with the record of
\* that one output.
C30_RouteLessInputFinalizedByFirstStore ==
  /\ [](\A j \in Inputs :
          (RoutedKinds(j) = {} /\ DOMAIN OutputRefs[j] = {}) => PutsFor(j) = {})
  /\ [][\A j \in Inputs :
          (/\ RoutedKinds(j) = {}
           /\ DOMAIN OutputRefs[j] = {}
           /\ DOMAIN OutputRefs'[j] # {})
          => /\ \A f \in Faults : ~keep(f)
             /\ ~aborted'
             /\ result' \notin {"StoreError", "KeyError"} =>
                  /\ Len(puts') = Len(puts) + 1
                  /\ puts'[Len(puts')].idx = j
                  /\ puts'[Len(puts')].produced = OutputRefs'[j]
                  /\ Len(puts'[Len(puts')].outputs) = 1]_vars

\* The inputs some Cache.put has failed for.
PutFailedFor == {puts[n].idx : n \in {m \in DOMAIN puts : ~puts[m].ok}}

\* C31: a failed Cache.put leaves nothing behind: the input still holds
\* every output the failed record was built from and all its routed kinds,
\* and the cache has nothing from the failed call; and the next file kept
\* for the input with no call failing returns success and issues a Cache.put
\* for it again, with the key of the failed one and the record of what the
\* input then holds, which the cache takes.
C31_PutIsRetriedAfterCacheWriteError ==
  /\ [](\A n \in DOMAIN puts :
          ~puts[n].ok =>
            /\ Complete(OutputRefs, puts[n].idx)
            /\ HeldIn(puts[n].produced, OutputRefs, puts[n].idx)
            /\ (\A m \in PutsFor(puts[n].idx) : ~puts[m].ok) =>
                  puts[n].key \notin DOMAIN cache)
  /\ [][(/\ file # NoFile
         /\ file.kind = "cas"
         /\ file.InputIndex \in PutFailedFor
         /\ keep("none"))
        => /\ result' = "success"
           /\ Len(puts') = Len(puts) + 1
           /\ puts'[Len(puts')].idx = file.InputIndex
           /\ puts'[Len(puts')].ok
           /\ \A n \in PutsFor(file.InputIndex) :
                 puts'[Len(puts')].key = puts[n].key
           /\ puts'[Len(puts')].produced = OutputRefs'[file.InputIndex]
           /\ puts'[Len(puts')].value =
                ResultRef(BuildResult(Action,
                                      Ascending(OutputRefs'[file.InputIndex]),
                                      "checked"))
           /\ cache'[puts'[Len(puts')].key] = puts'[Len(puts')].value]_vars

\* C31 witness: the one call that failed is a Cache.put that failed, and a
\* later call for the same input has put the same key with success.
C31_Witness ==
  /\ nErrors = 1
  /\ Len(puts) = 2
  /\ puts[1].idx = puts[2].idx
  /\ puts[1].key = puts[2].key
  /\ ~puts[1].ok
  /\ puts[2].ok
  /\ cache[puts[2].key] = puts[2].value

\* C32: the record of every Cache.put is built from the outputs the input
\* held when it was finalized and from nothing else: as many entries as the
\* input held kinds, the kinds strictly ascending, each entry with the
\* reference the input holds for its kind; and the outputs a call puts are
\* those its input holds when the call returns.
C32_RecordIsThePendingSet ==
  /\ [](\A n \in DOMAIN puts :
          LET O == puts[n].outputs
              Refs == OutputRefs[puts[n].idx]
          IN  /\ {O[m][1] : m \in DOMAIN O} = DOMAIN puts[n].produced
              /\ \A a, b \in DOMAIN O : a < b => O[a][1] < O[b][1]
              /\ \A m \in DOMAIN O :
                    /\ O[m][1] \in DOMAIN Refs
                    /\ O[m][2] = Refs[O[m][1]]
                    /\ O[m][2] = puts[n].produced[O[m][1]])
  /\ [][Len(puts') > Len(puts) =>
          /\ Len(puts') = Len(puts) + 1
          /\ puts'[Len(puts')].produced = OutputRefs'[puts'[Len(puts')].idx]
          /\ Len(puts'[Len(puts')].outputs) =
               Cardinality(DOMAIN OutputRefs'[puts'[Len(puts')].idx])]_vars

\* C32 witness: a record was put with two outputs of different references.
C32_Witness ==
  \E n \in DOMAIN puts :
     /\ Len(puts[n].outputs) = 2
     /\ puts[n].outputs[1][2] # puts[n].outputs[2][2]

====
